---- MODULE Spec2Model ----
(***************************************************************************)
(* whitenoise/base.py: a WSGI middleware that serves a catalog of static   *)
(* files (WhiteNoise.files), built once by WhiteNoise.add_files, through   *)
(* StaticFile.serve / Redirect.serve, and delegates every other path to    *)
(* the wrapped application.                                                *)
(*                                                                         *)
(* Python strings are modelled as sequences of pieces, one character each  *)
(* wherever the code or a library looks inside the string (paths, urls,    *)
(* dates, numbers, Accept-Encoding), so that endswith, slicing, str, the   *)
(* regular expression and the date formatter and parser are computed       *)
(* character by character; concatenation is \o.                            *)
(***************************************************************************)
EXTENDS Integers, Sequences, FiniteSets, TLC

VARIABLES
    python,    \* the major version of the interpreter running the process
    fs,        \* the directory tree under root: relative path -> os.stat result
    prefix,    \* the prefix argument of add_files
    files,     \* WhiteNoise.files: url -> StaticFile | Redirect
    started,   \* add_files has run; the dispatcher accepts requests
    environ,   \* the WSGI environ of the request being answered, or NoRequest
    response,  \* what __call__ passed to start_response and returned
    fileobj,   \* the file object opened by StaticFile.serve for this response
    gen,       \* the yield_file generator of this response
    previous   \* status and header list the same environ got just before

vars == <<python, fs, prefix, files, started, environ, response, fileobj, gen, previous>>

(***************************************************************************)
(* Strings                                                                 *)
(***************************************************************************)
\* None, where a string, a tuple or a header list is expected
None == <<>>

EndsWith(s, suffix) ==
    /\ Len(suffix) <= Len(s)
    /\ SubSeq(s, Len(s) - Len(suffix) + 1, Len(s)) = suffix

\* s[:-n] for n >= 1
DropLast(s, n) == IF n >= Len(s) THEN <<>> ELSE SubSeq(s, 1, Len(s) - n)

Digits == <<"0", "1", "2", "3", "4", "5", "6", "7", "8", "9">>

IsDigit(c) == \E i \in 1..10 : Digits[i] = c

DigitVal(c) == (CHOOSE i \in 1..10 : Digits[i] = c) - 1

RECURSIVE Str(_)
\* str(n) for n >= 0
Str(n) == IF n < 10 THEN <<Digits[n + 1]>>
          ELSE Str(n \div 10) \o <<Digits[(n % 10) + 1]>>

\* '%02d' % n
Pad2(n) == IF n < 10 THEN <<"0">> \o Str(n) ELSE Str(n)

\* '%04d' % n
Pad4(n) == IF n < 10 THEN <<"0", "0", "0">> \o Str(n)
           ELSE IF n < 100 THEN <<"0", "0">> \o Str(n)
           ELSE IF n < 1000 THEN <<"0">> \o Str(n)
           ELSE Str(n)

RECURSIVE ParseInt(_)
\* int(s) for a non-empty string of digits
ParseInt(s) == IF Len(s) = 1 THEN DigitVal(s[1])
               ELSE 10 * ParseInt(SubSeq(s, 1, Len(s) - 1)) + DigitVal(s[Len(s)])

AllDigits(s) == Len(s) > 0 /\ \A i \in 1..Len(s) : IsDigit(s[i])

RECURSIVE Split(_, _)
\* s.split(sep) for a one-character separator, empty pieces dropped
Split(s, sep) ==
    IF s = <<>> THEN <<>>
    ELSE IF s[1] = sep THEN Split(Tail(s), sep)
    ELSE LET stops == {i \in 1..Len(s) : s[i] = sep}
             end == IF stops = {} THEN Len(s) + 1
                    ELSE CHOOSE i \in stops : \A j \in stops : i <= j
         IN <<SubSeq(s, 1, end - 1)>> \o Split(SubSeq(s, end, Len(s)), sep)

(***************************************************************************)
(* time.gmtime, email.utils.formatdate and email.utils.parsedate           *)
(***************************************************************************)
\* st_mtime is a float; it is modelled in ticks of half a second
TicksPerSecond == 2

SecondsPerDay == 86400

DayNames == <<"Mon", "Tue", "Wed", "Thu", "Fri", "Sat", "Sun">>

MonthNames == <<"Jan", "Feb", "Mar", "Apr", "May", "Jun",
                "Jul", "Aug", "Sep", "Oct", "Nov", "Dec">>

\* a three-letter name as a string of characters
Chars(name) ==
    CASE name = "Mon" -> <<"M", "o", "n">> [] name = "Tue" -> <<"T", "u", "e">>
      [] name = "Wed" -> <<"W", "e", "d">> [] name = "Thu" -> <<"T", "h", "u">>
      [] name = "Fri" -> <<"F", "r", "i">> [] name = "Sat" -> <<"S", "a", "t">>
      [] name = "Sun" -> <<"S", "u", "n">> [] name = "Jan" -> <<"J", "a", "n">>
      [] name = "Feb" -> <<"F", "e", "b">> [] name = "Mar" -> <<"M", "a", "r">>
      [] name = "Apr" -> <<"A", "p", "r">> [] name = "May" -> <<"M", "a", "y">>
      [] name = "Jun" -> <<"J", "u", "n">> [] name = "Jul" -> <<"J", "u", "l">>
      [] name = "Aug" -> <<"A", "u", "g">> [] name = "Sep" -> <<"S", "e", "p">>
      [] name = "Oct" -> <<"O", "c", "t">> [] name = "Nov" -> <<"N", "o", "v">>
      [] name = "Dec" -> <<"D", "e", "c">>

IsLeap(y) == (y % 4 = 0 /\ y % 100 # 0) \/ y % 400 = 0

DaysBeforeMonth(y, m) ==
    LET cum == <<0, 31, 59, 90, 120, 151, 181, 212, 243, 273, 304, 334>>
    IN cum[m] + (IF m > 2 /\ IsLeap(y) THEN 1 ELSE 0)

\* the struct_time of a day of the 400-year era and a second of the day; the
\* steps are those of the proleptic Gregorian calendar
StructTime(y, m, d, rem, days) ==
    <<y, m, d, rem \div 3600, (rem % 3600) \div 60, rem % 60,
      (days + 3) % 7, DaysBeforeMonth(y, m) + d, 0>>

CivilMonth(yoe, era, doy, mp, rem, days) ==
    StructTime(yoe + era * 400 + (IF mp < 10 THEN 0 ELSE 1),
               IF mp < 10 THEN mp + 3 ELSE mp - 9,
               doy - (153 * mp + 2) \div 5 + 1, rem, days)

CivilDay(yoe, era, doy, rem, days) ==
    CivilMonth(yoe, era, doy, (5 * doy + 2) \div 153, rem, days)

CivilYear(doe, yoe, era, rem, days) ==
    CivilDay(yoe, era, doe - (365 * yoe + yoe \div 4 - yoe \div 100), rem, days)

CivilEra(doe, era, rem, days) ==
    CivilYear(doe,
              (doe - doe \div 1460 + doe \div 36524 - doe \div 146096) \div 365,
              era, rem, days)

Civil(days, rem) ==
    CivilEra((days + 719468) % 146097, (days + 719468) \div 146097, rem, days)

\* the whole seconds of a float time
Seconds(t) == t \div TicksPerSecond

\* time.gmtime(t): the struct_time
\* (tm_year, tm_mon, tm_mday, tm_hour, tm_min, tm_sec, tm_wday, tm_yday, tm_isdst)
gmtime(t) == Civil(Seconds(t) \div SecondsPerDay, Seconds(t) % SecondsPerDay)

\* 'hh:mm:ss'
Clock(tm) == Pad2(tm[4]) \o <<":">> \o Pad2(tm[5]) \o <<":">> \o Pad2(tm[6])

\* 'Sat, 01 Jan 2000 00:00:00' followed by the zone
FormatTime(tm, zone) ==
    Chars(DayNames[tm[7] + 1]) \o <<",", " ">> \o Pad2(tm[3]) \o <<" ">>
    \o Chars(MonthNames[tm[2]]) \o <<" ">> \o Pad4(tm[1]) \o <<" ">>
    \o Clock(tm) \o <<" ">> \o zone

\* email.utils.formatdate(t, usegmt=True): 'Sat, 01 Jan 2000 00:00:00 GMT'
formatdate(t) == FormatTime(gmtime(t), <<"G", "M", "T">>)

\* the same instant with a numeric zone: 'Sat, 01 Jan 2000 00:00:00 +0000'
formatdate_numeric_zone(t) == FormatTime(gmtime(t), <<"+", "0", "0", "0", "0">>)

MonthNumber(s) ==
    IF \E m \in 1..12 : Chars(MonthNames[m]) = s
    THEN CHOOSE m \in 1..12 : Chars(MonthNames[m]) = s
    ELSE 0

\* the fields of 'dd Mon yyyy hh:mm:ss': None, or the 9-tuple whose last
\* three fields are the fixed, unusable values 0, 1, -1
ParseFields(dd, mm, yy, tm) ==
    IF /\ AllDigits(dd) /\ mm # 0 /\ AllDigits(yy)
       /\ Len(tm) = 3 /\ \A i \in 1..3 : AllDigits(tm[i])
    THEN <<ParseInt(yy), mm, ParseInt(dd),
           ParseInt(tm[1]), ParseInt(tm[2]), ParseInt(tm[3]), 0, 1, -1>>
    ELSE None

\* the words of a date once the day name is gone; the zone is ignored
ParseWords(data) ==
    IF Len(data) < 4 THEN None
    ELSE ParseFields(data[1], MonthNumber(data[2]), data[3], Split(data[4], ":"))

\* a leading day name, which ends with a comma, is dropped
DropDayName(data) ==
    IF data # <<>> /\ EndsWith(data[1], <<",">>) THEN Tail(data) ELSE data

\* email.utils.parsedate(s)
parsedate(s) == ParseWords(DropDayName(Split(s, " ")))

RECURSIVE TupleLess(_, _)
\* a < b on tuples of integers of the same length
TupleLess(a, b) ==
    IF a = <<>> THEN FALSE
    ELSE IF a[1] # b[1] THEN a[1] < b[1]
    ELSE TupleLess(Tail(a), Tail(b))

\* a >= b, as Python compares a tuple with a struct_time
TupleGE(a, b) == ~TupleLess(a, b)

(***************************************************************************)
(* wsgiref.headers.Headers: an ordered list of (name, value) pairs         *)
(***************************************************************************)
\* Headers.__setitem__: delete every pair of that name, then append
SetHeader(h, name, val) ==
    SelectSeq(h, LAMBDA p : p[1] # name) \o <<<<name, val>>>>

\* Headers.__getitem__: the first value of that name, or None
GetHeader(h, name) ==
    IF \E i \in 1..Len(h) : h[i][1] = name
    THEN h[CHOOSE i \in 1..Len(h) :
               h[i][1] = name /\ \A j \in 1..(i - 1) : h[j][1] # name][2]
    ELSE None

HasHeader(h, name) == \E i \in 1..Len(h) : h[i][1] = name

(***************************************************************************)
(* The directory tree                                                      *)
(***************************************************************************)
IndexHtml == <<"i", "n", "d", "e", "x", ".", "h", "t", "m", "l">>

Css == <<".", "c", "s", "s">>

Html == <<".", "h", "t", "m", "l">>

\* the largest number of files in the tree
MaxFiles == 2

\* 2000-01-01 00:00:00.5 UTC, a Saturday
MTimeA == 2 * 946684800 + 1

\* 2001-01-01 00:00:00 UTC, a Monday and the first day of its year
MTimeB == 2 * 978307200

\* the files a tree is made of: relative path -> os.stat result
Universe ==
    LET f(path, mtime, size) == <<path, [st_mtime |-> mtime, st_size |-> size]>>
    IN { f(IndexHtml, MTimeA, 6),
         f(<<"a">> \o Css, MTimeA, 70000),
         f(<<"a">> \o Css \o <<".", "g", "z">>, MTimeB, 30),
         f(<<"d", "/">> \o IndexHtml, MTimeB, 0),
         f(<<"d", "/", "x">> \o IndexHtml, MTimeA, 8) }

Trees ==
    { [p \in {e[1] : e \in S} |-> (CHOOSE e \in S : e[1] = p)[2]] :
        S \in {T \in SUBSET Universe : Cardinality(T) \in 1..MaxFiles} }

\* os.path.isfile
isfile(tree, path) == path \in DOMAIN tree

\* os.path.dirname of a relative path ('' for a file directly under root)
dirname(path) ==
    LET slashes == {i \in 1..Len(path) : path[i] = "/"}
    IN IF slashes = {} THEN <<>>
       ELSE SubSeq(path, 1, (CHOOSE i \in slashes : \A j \in slashes : j <= i) - 1)

\* directory a is a proper ancestor of directory b
IsAncestor(a, b) ==
    /\ a # b
    /\ \/ a = <<>>
       \/ Len(b) > Len(a) /\ SubSeq(b, 1, Len(a) + 1) = a \o <<"/">>

RECURSIVE Orderings(_)
Orderings(S) ==
    IF S = {} THEN {<<>>}
    ELSE UNION { { <<x>> \o p : p \in Orderings(S \ {x}) } : x \in S }

\* os.walk(root), top-down: the files of a directory come together, in any
\* order, and before the files of the directories below it
Walks(tree) ==
    { w \in Orderings(DOMAIN tree) :
        \A i, j \in 1..Len(w) :
            i < j =>
                /\ ~IsAncestor(dirname(w[j]), dirname(w[i]))
                /\ dirname(w[i]) = dirname(w[j]) =>
                       \A k \in i..j : dirname(w[k]) = dirname(w[i]) }

(***************************************************************************)
(* StaticFile.__init__ and Redirect.__init__                               *)
(***************************************************************************)
GZIP_SUFFIX == <<".", "g", "z">>

BLOCK_SIZE == 16 * 4096

FOREVER == 10 * 365 * 24 * 60 * 60

\* WhiteNoise.CONFIG
CONFIG == [max_age |-> 60, allow_all_origins |-> TRUE, index_file |-> IndexHtml]

TextCss == <<"text/", "css">>

TextHtml == <<"text/", "html">>

OctetStream == <<"application/", "octet-stream">>

Gzip == <<"g", "z", "i", "p">>

\* the parameter add_header appends for charset='utf-8'
CharsetParam == <<"; charset=", "\"utf-8\"">>

AcceptEncoding == <<"Accept-Encoding">>

PublicMaxAge == <<"public, max-age=">>

\* mimetypes.guess_type(path): <<mimetype, encoding>>
guess_type(path) ==
    LET encoding == IF EndsWith(path, GZIP_SUFFIX) THEN Gzip ELSE None
        base == IF encoding # None THEN DropLast(path, Len(GZIP_SUFFIX)) ELSE path
    IN IF EndsWith(base, Css) THEN <<TextCss, encoding>>
       ELSE IF EndsWith(base, Html) THEN <<TextHtml, encoding>>
       ELSE <<None, encoding>>

\* StaticFile.get_charset: mimetype.startswith('text/')
get_charset(mimetype) == mimetype[1] = "text/"

\* Headers.__setitem__ under a condition
SetHeaderIf(cond, h, name, val) == IF cond THEN SetHeader(h, name, val) ELSE h

\* lines 47-60: the headers of the file itself
PlainHeaders(stat, mimetype, encoding, max_age) ==
    SetHeaderIf(CONFIG.allow_all_origins,
        SetHeader(
            SetHeaderIf(encoding # None,
                << <<"Last-Modified", formatdate(stat.st_mtime)>>,
                   <<"Content-Length", Str(stat.st_size)>>,
                   <<"Content-Type",
                     IF get_charset(mimetype) THEN mimetype \o CharsetParam
                     ELSE mimetype>> >>,
                "Content-Encoding", encoding),
            "Cache-Control", PublicMaxAge \o Str(max_age)),
        "Access-Control-Allow-Origin", <<"*">>)

\* lines 62-71: the compressed variant, if path + '.gz' is a file
WithVariant(tree, path, mtime_tuple, headers, gzip_path) ==
    IF isfile(tree, gzip_path)
    THEN [type |-> "StaticFile", path |-> path, mtime_tuple |-> mtime_tuple,
          headers |-> SetHeader(headers, "Vary", AcceptEncoding),
          gzip_path |-> gzip_path,
          gzip_headers |->
              SetHeader(SetHeader(SetHeader(headers, "Vary", AcceptEncoding),
                                  "Content-Encoding", Gzip),
                        "Content-Length", Str(tree[gzip_path].st_size))]
    ELSE [type |-> "StaticFile", path |-> path, mtime_tuple |-> mtime_tuple,
          headers |-> headers, gzip_path |-> None, gzip_headers |-> None]

\* the mimetype line 44 settles on
MimeType(guess) == IF guess[1] # None THEN guess[1] ELSE OctetStream

StaticFile(tree, path, is_immutable) ==
    WithVariant(tree, path, gmtime(tree[path].st_mtime),
                PlainHeaders(tree[path], MimeType(guess_type(path)),
                             guess_type(path)[2],
                             IF is_immutable THEN FOREVER ELSE CONFIG.max_age),
                path \o GZIP_SUFFIX)

Redirect(path) == [type |-> "Redirect", path |-> path]

(***************************************************************************)
(* WhiteNoise.add_files                                                    *)
(***************************************************************************)
\* WhiteNoise.is_immutable_file
is_immutable_file(file_path, url) == FALSE

\* WhiteNoise.get_static_file
get_static_file(tree, file_path, url) ==
    StaticFile(tree, file_path, is_immutable_file(file_path, url))

RECURSIVE Strip(_, _)
\* s.strip(c)
Strip(s, c) ==
    IF s = <<>> THEN s
    ELSE IF s[1] = c THEN Strip(Tail(s), c)
    ELSE IF s[Len(s)] = c THEN Strip(DropLast(s, 1), c)
    ELSE s

\* lines 159-160: the prefix with one leading and one trailing slash
NormalPrefix(pfx) ==
    LET stripped == Strip(pfx, "/")
    IN IF stripped # <<>> THEN <<"/">> \o stripped \o <<"/">> ELSE <<"/">>

\* dict item assignment
Put(d, key, val) ==
    [k \in DOMAIN d \cup {key} |-> IF k = key THEN val ELSE d[k]]

\* url.endswith(index_file)
IsIndexUrl(url, index_file) == EndsWith(url, index_file)

\* lines 167-174: the three keys of a url that ends with the index filename
AddIndex(d, tree, file_path, url, noslash, withslash) ==
    Put(Put(IF noslash # <<>>
            THEN Put(d, noslash, Redirect(withslash))
            ELSE Put(d, noslash, get_static_file(tree, file_path, noslash)),
            withslash, get_static_file(tree, file_path, withslash)),
        url, get_static_file(tree, file_path, url))

\* lines 165-174, with the url of the file
AddUrl(d, tree, file_path, url, index_file) ==
    IF IsIndexUrl(url, index_file)
    THEN AddIndex(d, tree, file_path, url,
                  DropLast(url, Len(index_file) + 1),
                  DropLast(url, Len(index_file)))
    ELSE Put(d, url, get_static_file(tree, file_path, url))

\* the body of the loop over filenames, for one file
AddFile(d, tree, pfx, file_path) ==
    AddUrl(d, tree, file_path, pfx \o file_path, CONFIG.index_file)

RECURSIVE AddFiles(_, _, _, _)
\* the loops of add_files over the walk
AddFiles(d, tree, pfx, walk) ==
    IF walk = <<>> THEN d
    ELSE AddFiles(AddFile(d, tree, pfx, Head(walk)), tree, pfx, Tail(walk))

\* the dict WhiteNoise.__init__ starts from
NoFiles == [k \in {} |-> None]

(***************************************************************************)
(* Requests                                                                *)
(***************************************************************************)
WordChars ==
    {"a", "b", "c", "d", "e", "f", "g", "h", "i", "j", "k", "l", "m", "n",
     "o", "p", "q", "r", "s", "t", "u", "v", "w", "x", "y", "z",
     "A", "B", "C", "D", "E", "F", "G", "H", "I", "J", "K", "L", "M", "N",
     "O", "P", "Q", "R", "S", "T", "U", "V", "W", "X", "Y", "Z",
     "0", "1", "2", "3", "4", "5", "6", "7", "8", "9", "_"}

\* re.compile(r'\bgzip\b').search(s)
ACCEPT_GZIP_RE(s) ==
    \E i \in 1..(Len(s) - 3) :
        /\ SubSeq(s, i, i + 3) = Gzip
        /\ i = 1 \/ s[i - 1] \notin WordChars
        /\ i + 3 = Len(s) \/ s[i + 4] \notin WordChars

\* dict.get(key, default)
Get(env, key, default) == IF key \in DOMAIN env THEN env[key] ELSE default

\* line 101 with the parsed date: in Python 2 None is smaller than every tuple
NotBefore(parsed, mtime_tuple) ==
    IF parsed = None THEN FALSE ELSE TupleGE(parsed, mtime_tuple)

\* lines 99-101 raise: parsedate gave None and Python 3 does not order
\* None against a struct_time
file_not_modified_raises(sf, env, py) ==
    /\ "HTTP_IF_MODIFIED_SINCE" \in DOMAIN env
    /\ env["HTTP_IF_MODIFIED_SINCE"] # GetHeader(sf.headers, "Last-Modified")
    /\ parsedate(env["HTTP_IF_MODIFIED_SINCE"]) = None
    /\ py = 3

\* StaticFile.file_not_modified, when it returns
file_not_modified(sf, env) ==
    IF "HTTP_IF_MODIFIED_SINCE" \notin DOMAIN env THEN FALSE
    ELSE IF env["HTTP_IF_MODIFIED_SINCE"] = GetHeader(sf.headers, "Last-Modified")
    THEN TRUE
    ELSE NotBefore(parsedate(env["HTTP_IF_MODIFIED_SINCE"]), sf.mtime_tuple)

\* StaticFile.get_path_and_headers: <<path, headers>>
get_path_and_headers(sf, env) ==
    IF /\ sf.gzip_path # None
       /\ ACCEPT_GZIP_RE(Get(env, "HTTP_ACCEPT_ENCODING", <<>>))
    THEN <<sf.gzip_path, sf.gzip_headers>>
    ELSE <<sf.path, sf.headers>>

\* a variant that hands out the list the Headers object keeps
HeadersItems_SameList(h) == [list |-> h, shared |-> TRUE]

\* Headers.items(): a new list of the pairs, not the list the object keeps
HeadersItems(h) == [list |-> h, shared |-> FALSE]

\* a list built in place by the caller
NewList(h) == [list |-> h, shared |-> FALSE]

AllowGetHead == << <<"Allow", <<"GET, HEAD">> >> >>

NoRequest == <<>>

\* what a call of __call__ produced: the arguments of start_response, the
\* kind of iterable returned, the file it opened, the environ it handed to
\* the application, the exception it raised
Result(status, headers, body, path, forwarded, raised) ==
    [status |-> status, headers |-> headers, body |-> body, opened |-> path,
     forwarded |-> forwarded, raised |-> raised]

NoResponse == Result("", NewList(<<>>), "", None, NoRequest, "")

MethodNotAllowed ==
    Result("405 Method Not Allowed", NewList(AllowGetHead), "empty", None,
           NoRequest, "")

\* line 22: the Location header
Location(scheme, host, path) ==
    IF host # <<>> THEN scheme \o <<"://">> \o host \o path ELSE path

\* Redirect.serve
RedirectServe(r, env) ==
    IF env["REQUEST_METHOD"] # "GET" /\ env["REQUEST_METHOD"] # "HEAD"
    THEN MethodNotAllowed
    ELSE Result("301 Moved Permanently",
                NewList(<< <<"Location",
                             Location(env["wsgi.url_scheme"],
                                      Get(env, "HTTP_HOST", <<>>), r.path)>> >>),
                "empty", None, NoRequest, "")

\* lines 85-91: the 200 response with the chosen path and headers
Serve200(method, env, path, headers) ==
    IF method = "HEAD"
    THEN Result("200 OK", HeadersItems(headers), "empty", None, NoRequest, "")
    ELSE Result("200 OK", HeadersItems(headers),
                IF "wsgi.file_wrapper" \in DOMAIN env
                THEN "file_wrapper" ELSE "yield_file",
                path, NoRequest, "")

\* a variant that looks at If-Modified-Since before it looks at the method
StaticFileServe_ConditionalFirst(sf, env, py) ==
    IF file_not_modified_raises(sf, env, py)
    THEN Result("", NewList(<<>>), "", None, NoRequest, "TypeError")
    ELSE IF file_not_modified(sf, env)
    THEN Result("304 Not Modified", NewList(<<>>), "empty", None, NoRequest, "")
    ELSE IF env["REQUEST_METHOD"] # "GET" /\ env["REQUEST_METHOD"] # "HEAD"
    THEN MethodNotAllowed
    ELSE Serve200(env["REQUEST_METHOD"], env,
                  get_path_and_headers(sf, env)[1],
                  get_path_and_headers(sf, env)[2])

\* StaticFile.serve
StaticFileServe(sf, env, py) ==
    IF env["REQUEST_METHOD"] # "GET" /\ env["REQUEST_METHOD"] # "HEAD"
    THEN MethodNotAllowed
    ELSE IF file_not_modified_raises(sf, env, py)
    THEN Result("", NewList(<<>>), "", None, NoRequest, "TypeError")
    ELSE IF file_not_modified(sf, env)
    THEN Result("304 Not Modified", NewList(<<>>), "empty", None, NoRequest, "")
    ELSE Serve200(env["REQUEST_METHOD"], env,
                  get_path_and_headers(sf, env)[1],
                  get_path_and_headers(sf, env)[2])

\* the wrapped application: its result is whatever it makes of the environ
application(env) ==
    Result("application", NewList(<<>>), "application", None, env, "")

\* lines 152-155 with the entry found at a key
ServeEntry(static_file, env, py) ==
    IF static_file.type = "Redirect" THEN RedirectServe(static_file, env)
    ELSE StaticFileServe(static_file, env, py)

\* for the variant below: PATH_INFO without its trailing slash, when the
\* path itself is no key
WithoutSlash(d, path) ==
    IF Len(path) > 1 /\ EndsWith(path, <<"/">>) /\ path \notin DOMAIN d
    THEN DropLast(path, 1) ELSE path

\* a variant that looks the path up without its trailing slash
Dispatch_TrailingSlash(d, env, py) ==
    IF WithoutSlash(d, env["PATH_INFO"]) \notin DOMAIN d THEN application(env)
    ELSE ServeEntry(d[WithoutSlash(d, env["PATH_INFO"])], env, py)

\* WhiteNoise.__call__
Dispatch(d, env, py) ==
    IF env["PATH_INFO"] \notin DOMAIN d THEN application(env)
    ELSE ServeEntry(d[env["PATH_INFO"]], env, py)

\* what the host's start_response may do with the list it is given: a
\* wrapping middleware appends its own header to it.  The list is the
\* caller's own copy unless the caller passed the list its entry keeps.
ServerHeader == <<"Server", <<"h">>>>

start_response(d, env, r) ==
    IF r.headers.shared
    THEN IF r.headers.list = d[env["PATH_INFO"]].headers
         THEN [d EXCEPT ![env["PATH_INFO"]].headers = Append(@, ServerHeader)]
         ELSE [d EXCEPT ![env["PATH_INFO"]].gzip_headers = Append(@, ServerHeader)]
    ELSE d

(***************************************************************************)
(* The requests the model issues                                           *)
(***************************************************************************)
Methods == {"GET", "HEAD", "POST"}

Prefixes == {<<>>, <<"/", "s">>}

\* paths that are no key of any catalog built here: an unknown file, and
\* keys altered in case, by a trailing slash and by a '..' segment
OtherPaths ==
    { <<"/", "n", ".", "j", "s">>,
      <<"/", "A", ".", "C", "S", "S">>,
      <<"/", "a", ".", "c", "s", "s", "/">>,
      <<"/", "d", "/", ".", ".", "/", "a", ".", "c", "s", "s">> }

\* an optional value: absent, or present with a value of S
Opt(S) == {<<>>} \cup {<<v>> : v \in S}

Unparsable == <<"x">>

\* dates around a modification time, and a value that is no date
DatesAround(mtime) ==
    { formatdate(mtime), formatdate_numeric_zone(mtime),
      formatdate(mtime - TicksPerSecond), formatdate(mtime + TicksPerSecond),
      Unparsable }

IfModifiedSinceValues(d, tree, path) ==
    IF path \in DOMAIN d /\ d[path].type = "StaticFile"
    THEN DatesAround(tree[d[path].path].st_mtime)
    ELSE { formatdate(MTimeA) }

AcceptEncodingValues ==
    { Gzip, Gzip \o <<",", "x">>, <<"x">> \o Gzip }

\* what the host puts in every environ: url scheme, Host header, file wrapper
Hosts ==
    { [scheme |-> <<"http">>, host |-> <<>>, file_wrapper |-> <<>>],
      [scheme |-> <<"https">>, host |-> << <<"h">> >>,
       file_wrapper |-> << "FileWrapper" >>] }

Environ(method, path, ims, ae, h) ==
    LET keys == {"REQUEST_METHOD", "PATH_INFO", "wsgi.url_scheme"}
                \cup (IF ims # <<>> THEN {"HTTP_IF_MODIFIED_SINCE"} ELSE {})
                \cup (IF ae # <<>> THEN {"HTTP_ACCEPT_ENCODING"} ELSE {})
                \cup (IF h.host # <<>> THEN {"HTTP_HOST"} ELSE {})
                \cup (IF h.file_wrapper # <<>> THEN {"wsgi.file_wrapper"} ELSE {})
    IN [k \in keys |->
          CASE k = "REQUEST_METHOD" -> method
            [] k = "PATH_INFO" -> path
            [] k = "wsgi.url_scheme" -> h.scheme
            [] k = "HTTP_IF_MODIFIED_SINCE" -> ims[1]
            [] k = "HTTP_ACCEPT_ENCODING" -> ae[1]
            [] k = "HTTP_HOST" -> h.host[1]
            [] k = "wsgi.file_wrapper" -> h.file_wrapper[1]]

Environs(d, tree) ==
    UNION { { Environ(method, path, ims, ae, h) :
                method \in Methods,
                ims \in Opt(IfModifiedSinceValues(d, tree, path)),
                ae \in Opt(AcceptEncodingValues),
                h \in Hosts } :
            path \in DOMAIN d \cup OtherPaths }

(***************************************************************************)
(* State                                                                   *)
(***************************************************************************)
NoFile == [path |-> None, state |-> "none", pos |-> 0]

NoPrevious == [status |-> "none", headers |-> <<>>]

Idle == DOMAIN environ = {}

\* the body of the current response is still being sent
InFlight ==
    \/ gen \in {"created", "suspended"}
    \/ response.body = "file_wrapper" /\ fileobj.state = "open"

Init ==
    /\ python \in {2, 3}
    /\ fs \in Trees
    /\ prefix = <<>>
    /\ files = NoFiles
    /\ started = FALSE
    /\ environ = NoRequest
    /\ response = NoResponse
    /\ fileobj = NoFile
    /\ gen = "none"
    /\ previous = NoPrevious

\* WhiteNoise.add_files(root, prefix), as WhiteNoise.__init__ calls it
add_files ==
    /\ ~started
    /\ \E pfx \in Prefixes, walk \in Walks(fs) :
          /\ prefix' = pfx
          /\ files' = AddFiles(files, fs, NormalPrefix(pfx), walk)
    /\ started' = TRUE
    /\ UNCHANGED <<python, fs, environ, response, fileobj, gen, previous>>

\* the state after __call__(env, start_response) produced r
Answer(env, r) ==
    /\ environ' = env
    /\ response' = r
    /\ files' = start_response(files, env, r)
    /\ fileobj' = IF r.opened # None
                  THEN [path |-> r.opened, state |-> "open", pos |-> 0]
                  ELSE NoFile
    /\ gen' = IF r.body = "yield_file" THEN "created" ELSE "none"
    /\ previous' = IF Idle THEN NoPrevious
                   ELSE [status |-> response.status,
                         headers |-> response.headers.list]

\* WhiteNoise.__call__(environ, start_response): a new request, or the
\* GET just answered once more
Call ==
    /\ started
    /\ ~InFlight
    /\ \E env \in (IF Idle THEN Environs(files, fs) ELSE {environ}) :
          /\ Idle \/ env["REQUEST_METHOD"] = "GET"
          /\ Answer(env, Dispatch(files, env, python))
    /\ UNCHANGED <<python, fs, prefix, started>>

\* the bytes read(BLOCK_SIZE) returns at a position of a file of that size
Read(size, pos) == IF size - pos < BLOCK_SIZE THEN size - pos ELSE BLOCK_SIZE

\* next() on the generator of yield_file: one turn of its loop
YieldFileNext ==
    /\ gen \in {"created", "suspended"}
    /\ IF Read(fs[fileobj.path].st_size, fileobj.pos) > 0
       THEN /\ gen' = "suspended"
            /\ fileobj' = [fileobj EXCEPT
                             !.pos = @ + Read(fs[fileobj.path].st_size, @)]
       ELSE /\ gen' = "finished"
            /\ fileobj' = [fileobj EXCEPT !.state = "closed"]
    /\ UNCHANGED <<python, fs, prefix, files, started, environ, response, previous>>

\* close() on the generator of yield_file: GeneratorExit is raised at the
\* yield where it is suspended; a generator that never ran just ends
YieldFileClose ==
    /\ gen \in {"created", "suspended"}
    /\ gen' = "finished"
    /\ fileobj' = IF gen = "suspended"
                  THEN [fileobj EXCEPT !.state = "closed"]
                  ELSE fileobj
    /\ UNCHANGED <<python, fs, prefix, files, started, environ, response, previous>>

\* the consumer forgets the generator without closing it
YieldFileDrop ==
    /\ gen \in {"created", "suspended"}
    /\ gen' = "dropped"
    /\ UNCHANGED <<python, fs, prefix, files, started, environ, response,
                   fileobj, previous>>

\* the garbage collector finalizes an unreachable generator and file
\* object; when, and whether before exit, depends on the interpreter
Finalize ==
    /\ gen \in {"finished", "dropped"}
    /\ fileobj.state = "open"
    /\ fileobj' = [fileobj EXCEPT !.state = "closed"]
    /\ UNCHANGED <<python, fs, prefix, files, started, environ, response,
                   gen, previous>>

\* the host's wsgi.file_wrapper is done with the file it was given
FileWrapperClose ==
    /\ response.body = "file_wrapper"
    /\ fileobj.state = "open"
    /\ fileobj' = [fileobj EXCEPT !.state = "closed"]
    /\ UNCHANGED <<python, fs, prefix, files, started, environ, response,
                   gen, previous>>

\* the host has sent the response and waits for the next request
Done ==
    /\ ~Idle
    /\ ~InFlight
    /\ environ' = NoRequest
    /\ response' = NoResponse
    /\ fileobj' = NoFile
    /\ gen' = "none"
    /\ previous' = NoPrevious
    /\ UNCHANGED <<python, fs, prefix, files, started>>

Next ==
    \/ add_files
    \/ Call
    \/ YieldFileNext
    \/ YieldFileClose
    \/ YieldFileDrop
    \/ Finalize
    \/ FileWrapperClose
    \/ Done

Spec == Init /\ [][Next]_vars

(***************************************************************************)
(* Vocabulary of the properties                                            *)
(***************************************************************************)
Method == environ["REQUEST_METHOD"]

Path == environ["PATH_INFO"]

IsAsset(d, k) == k \in DOMAIN d /\ d[k].type = "StaticFile"

IsRedirect(d, k) == k \in DOMAIN d /\ d[k].type = "Redirect"

\* a request for an asset with a method the asset serves
AssetRequest == ~Idle /\ IsAsset(files, Path) /\ Method \in {"GET", "HEAD"}

Conditional == "HTTP_IF_MODIFIED_SINCE" \in DOMAIN environ

\* the url add_files gives a file of the tree
Url(file_path) == NormalPrefix(prefix) \o file_path

\* the file's name is exactly the configured index filename
IsIndexFile(file_path) ==
    \/ file_path = CONFIG.index_file
    \/ EndsWith(file_path, <<"/">> \o CONFIG.index_file)

\* year, month, day, hour, minute, second
CalendarFields(tm) == SubSeq(tm, 1, 6)

NotForwarded == DOMAIN response.forwarded = {}

(***************************************************************************)
(* C1: a GET or HEAD for an asset that carries If-Modified-Since is        *)
(* answered 304, with no header, no body and no file opened, exactly when  *)
(* the header equals the stored Last-Modified string or its date, compared *)
(* on year/month/day/hour/minute/second, is on or after the file's         *)
(* modification time truncated to the second; an earlier date gets 200.    *)
(***************************************************************************)
C1_NotModifiedExactlyWhenOnOrAfter ==
    (AssetRequest /\ Conditional) =>
        LET stat == fs[files[Path].path]
            raw == environ["HTTP_IF_MODIFIED_SINCE"]
            parsed == parsedate(raw)
            onOrAfter ==
                /\ parsed # None
                /\ ~TupleLess(CalendarFields(parsed),
                              CalendarFields(gmtime(stat.st_mtime)))
            satisfied == raw = formatdate(stat.st_mtime) \/ onOrAfter
        IN /\ response.status = "304 Not Modified" <=> satisfied
           /\ satisfied => /\ response.headers.list = <<>>
                           /\ response.body = "empty"
                           /\ fileobj.state = "none"
           /\ (parsed # None /\ ~satisfied) => response.status = "200 OK"

(***************************************************************************)
(* C2: a GET or HEAD for an asset whose If-Modified-Since value does not   *)
(* parse as a date is served normally: status 200 with the headers of the  *)
(* chosen variant, and no exception.                                       *)
(***************************************************************************)
C2_UnparsableDateServedNormally ==
    (AssetRequest /\ Conditional
        /\ parsedate(environ["HTTP_IF_MODIFIED_SINCE"]) = None) =>
        /\ response.raised = ""
        /\ response.status = "200 OK"
        /\ response.headers.list = get_path_and_headers(files[Path], environ)[2]

(***************************************************************************)
(* C3: after the catalog is built no key is the url of a file whose name   *)
(* ends with '.gz', and a file with a '.gz' sibling has one entry at its   *)
(* own url that carries both variants.                                     *)
(***************************************************************************)
C3_NoEntryForCompressedFiles ==
    started =>
        \A p \in DOMAIN fs :
            /\ EndsWith(p, GZIP_SUFFIX) => Url(p) \notin DOMAIN files
            /\ (~EndsWith(p, GZIP_SUFFIX) /\ isfile(fs, p \o GZIP_SUFFIX)) =>
                   /\ IsAsset(files, Url(p))
                   /\ files[Url(p)].path = p
                   /\ files[Url(p)].gzip_path = p \o GZIP_SUFFIX

(***************************************************************************)
(* C4: a GET for an asset that is not answered 304 gets, when the asset    *)
(* had a '.gz' sibling, the compressed file and header set (Content-       *)
(* Encoding: gzip, Content-Length of the .gz file) if Accept-Encoding has  *)
(* the token gzip and the plain file and header set (Content-Length of the *)
(* source file) otherwise, both with Vary: Accept-Encoding; without a      *)
(* sibling it gets the plain file and no Vary header.                      *)
(***************************************************************************)
C4_VariantFollowsAcceptEncoding ==
    (AssetRequest /\ Method = "GET" /\ response.status # "304 Not Modified") =>
        LET p == files[Path].path
            gz == p \o GZIP_SUFFIX
            token == ACCEPT_GZIP_RE(Get(environ, "HTTP_ACCEPT_ENCODING", <<>>))
            h == response.headers.list
        IN IF isfile(fs, gz)
           THEN /\ GetHeader(h, "Vary") = AcceptEncoding
                /\ IF token
                   THEN /\ fileobj.path = gz
                        /\ GetHeader(h, "Content-Encoding") = Gzip
                        /\ GetHeader(h, "Content-Length") = Str(fs[gz].st_size)
                   ELSE /\ fileobj.path = p
                        /\ GetHeader(h, "Content-Length") = Str(fs[p].st_size)
           ELSE /\ fileobj.path = p
                /\ GetHeader(h, "Content-Length") = Str(fs[p].st_size)
                /\ ~HasHeader(h, "Vary")

(***************************************************************************)
(* C5: a request for a catalog key with a method other than GET and HEAD   *)
(* is answered 405 with exactly the header Allow: GET, HEAD and no body;   *)
(* it is not forwarded, opens no file, and is neither a 304 nor a 301.     *)
(***************************************************************************)
C5_MethodNotAllowedOnStaticPath ==
    (~Idle /\ Path \in DOMAIN files /\ Method \notin {"GET", "HEAD"}) =>
        /\ response.status = "405 Method Not Allowed"
        /\ response.headers.list = << <<"Allow", <<"GET, HEAD">> >> >>
        /\ response.body = "empty"
        /\ response.raised = ""
        /\ NotForwarded
        /\ fileobj.state = "none"

\* a POST whose If-Modified-Since equals the asset's Last-Modified got 405
C5_Witness ==
    /\ ~Idle
    /\ IsAsset(files, Path)
    /\ Method = "POST"
    /\ Conditional
    /\ environ["HTTP_IF_MODIFIED_SINCE"] = GetHeader(files[Path].headers, "Last-Modified")
    /\ response.status = "405 Method Not Allowed"

(***************************************************************************)
(* C6: after the catalog is built, for every file named with the index     *)
(* filename in a directory of url D, D + index filename and D are assets   *)
(* for that file and D without its trailing slash is a redirect to D,      *)
(* which a GET answers 301 with Location D; for the root index under an    *)
(* empty prefix the stripped key is the empty string and holds the asset.  *)
(***************************************************************************)
C6_IndexExpansion ==
    started =>
        \A p \in {q \in DOMAIN fs : IsIndexFile(q)} :
            LET url == Url(p)
                D == DropLast(url, Len(CONFIG.index_file))
                noslash == DropLast(D, 1)
                get == Environ("GET", noslash, <<>>, <<>>,
                               [scheme |-> <<"http">>, host |-> <<>>,
                                file_wrapper |-> <<>>])
            IN /\ IsAsset(files, url) /\ files[url].path = p
               /\ IsAsset(files, D) /\ files[D].path = p
               /\ IF noslash = <<>>
                  THEN IsAsset(files, noslash) /\ files[noslash].path = p
                  ELSE /\ IsRedirect(files, noslash)
                       /\ files[noslash].path = D
                       /\ Dispatch(files, get, python).status = "301 Moved Permanently"
                       /\ Dispatch(files, get, python).headers.list
                              = << <<"Location", D>> >>

(***************************************************************************)
(* C7: a request whose path is not a key of the catalog, compared as an    *)
(* exact string, is forwarded to the application with the same environ and *)
(* the application's result is returned as it is; this holds for a path    *)
(* that differs from a key by a trailing slash, by case or by a '..'.      *)
(***************************************************************************)
C7_UnknownPathDelegated ==
    (~Idle /\ Path \notin DOMAIN files) =>
        /\ response.forwarded = environ
        /\ response = application(environ)
        /\ fileobj.state = "none"

\* '/a.css/' was delegated although '/a.css' is a key
C7_Witness ==
    /\ ~Idle
    /\ Path = <<"/", "a", ".", "c", "s", "s", "/">>
    /\ DropLast(Path, 1) \in DOMAIN files
    /\ response.status = "application"

C9_FileClosedOnEveryExit ==
    /\ fileobj.state # "none" =>
           ~Idle /\ Method = "GET" /\ response.status = "200 OK"
    /\ (~Idle /\ Method = "GET" /\ response.status = "200 OK") =>
           fileobj.state # "none"
    /\ gen = "finished" => fileobj.state = "closed"

(***************************************************************************)
(* C10: after the catalog is built every redirect's target is its own key  *)
(* followed by '/', and that target is a key holding an asset for a file   *)
(* whose name is exactly the index filename.                               *)
(***************************************************************************)
C10_RedirectLeadsToIndexAsset ==
    started =>
        \A k \in DOMAIN files :
            files[k].type = "Redirect" =>
                /\ files[k].path = k \o <<"/">>
                /\ IsAsset(files, files[k].path)
                /\ IsIndexFile(files[files[k].path].path)

====
